---- MODULE Spec2Model ----
(***************************************************************************)
(* Model of the pipeline of overton_irt_mcmc.py (the item-response-theory   *)
(* notebook) and of load_mcmc_results_example.py.                           *)
(*                                                                          *)
(* The notebook is one sequential script: pc is the next cell to run.  The  *)
(* wide table `questions` is the input; every later object (subset, long_q, *)
(* the pd.Categorical encoders, the four models, their posteriors and the   *)
(* posterior-predictive sets) is computed from it as the code computes it.  *)
(* Real-valued parameters are integers of a small range; a scale            *)
(* exp(x) is carried as its exponent x and invlogit(x) as the record        *)
(* [invlogit |-> x].                                                        *)
(***************************************************************************)
EXTENDS Integers, Sequences, FiniteSets, TLC

\* ------------------------------------------------------------------ bounds
MaxIters == 2
NumChains == 2
NumDraws == 1

\* --------------------------------------------------------- program constants
seed == 335
RngMod == 64
SampleSize == 2
NaN == 9
REF_IDs == <<3, 1>>
order == <<"homosex", "cappun", "grass">>
IDS == {1, 2, 3}
Years == {1972, 1973}
Answers == {0, 1}
None == [kind |-> "none"]
FileNames == {"idata1.nc", "idata2.nc", "idata3.nc", "idata4.nc"}
SetNames == {"idata1", "idata2", "idata3", "idata4",
             "pp1", "pp2", "pp3", "pp32", "pp4", "pp42"} \cup FileNames

\* Alphabetical rank of a question name (the order pd.Categorical sorts by).
QRank(name) == CASE name = "cappun" -> 1 [] name = "grass" -> 2 [] name = "homosex" -> 3
IsNaN(x) == x = NaN

Range(s) == {s[i] : i \in 1..Len(s)}

\* ------------------------------------------------------------ np.random
\* The shared generator rng: every use draws from it and advances its state.
NextRng(s) == (5 * s + 3) % RngMod
RECURSIVE RngAfter(_, _)
RngAfter(s, n) == IF n = 0 THEN s ELSE RngAfter(NextRng(s), n - 1)
\* A pseudo-random integer of 0..m-1 determined by the drawn seed and a position.
Draw(sd, k, m) == (((sd * 7) + (k * 5) + ((sd * k) % 5)) % 97) % m

\* ------------------------------------------------------------ pandas helpers
\* The elements of S in increasing rank (rank is a function on S, injective).
SortedBy(S, rank) ==
    [i \in 1..Cardinality(S) |->
       CHOOSE x \in S : Cardinality({y \in S : rank[y] < rank[x]}) = i - 1]

IndexOf(s, v) == CHOOSE i \in 1..Len(s) : s[i] = v

\* An encoder whose categories keep the order of first appearance.
CategoricalUnsorted(vals, rank, null) ==
    LET idx == {i \in 1..Len(vals) :
                  vals[i] # null /\ \A j \in 1..(i - 1) : vals[j] # vals[i]}
        cats == [k \in 1..Cardinality(idx) |->
                   vals[CHOOSE i \in idx : Cardinality({j \in idx : j < i}) = k - 1]]
    IN [categories |-> cats,
        codes |-> [i \in 1..Len(vals) |->
                     IF vals[i] = null THEN -1 ELSE IndexOf(cats, vals[i]) - 1]]
\* pd.Categorical(values): categories are the sorted distinct non-null values,
\* codes are 0-based positions in categories, -1 for a null value.
Categorical(vals, rank, null) ==
    LET cats == SortedBy({vals[i] : i \in {j \in 1..Len(vals) : vals[j] # null}}, rank)
    IN [categories |-> cats,
        codes |-> [i \in 1..Len(vals) |->
                     IF vals[i] = null THEN -1 ELSE IndexOf(cats, vals[i]) - 1]]

\* The sort keys of integer values and of question names.
IntRank(vals) == [x \in Range(vals) |-> x]
NameRank(vals) == [x \in Range(vals) |-> QRank(x)]
CategoricalInt(vals) == Categorical(vals, IntRank(vals), NaN)
CategoricalName(vals) == Categorical(vals, NameRank(vals), "")

\* x[codes] with a tensor x: a negative code counts from the end.
Take(x, c) == IF c >= 0 THEN x[c + 1] ELSE x[Len(x) + c + 1]

VARIABLES pc, err, questions, rng, iters, subset, q, long_q, q_cat, id_cat,
          coords, m1, m2, m3, m4, idata1, idata2, idata3, idata4, files,
          sorted_q, forest, pp1, pp2, pp3, pp32, pp4, pp42,
          years, sorted_years, q_year_cat, sorted_years_cat, id_year_cat,
          loaded, writes

gData == <<questions, subset, q, long_q>>
gCat == <<q_cat, id_cat>>
gYear == <<years, sorted_years, q_year_cat, sorted_years_cat, id_year_cat>>
gModel == <<m1, m2, m3, m4>>
gIdata == <<idata1, idata2, idata3, idata4, files>>
gPP == <<pp1, pp2, pp3, pp32, pp4, pp42>>
gSumm == <<sorted_q, forest>>

vars == <<pc, err, rng, iters, gData, gCat, coords, gModel, gIdata, gSumm, gPP,
          gYear, loaded, writes>>

\* ------------------------------------------------------------------ input
\* The wide table: one row per respondent id, one cell per question, a year.
\* The answers drawn for each question column, and the rows drawn for a
\* respondent that is not a reference respondent.
CellValues(qn) == CASE qn = "homosex" -> {0, 1, NaN}
                    [] qn = "cappun" -> {1, NaN}
                    [] qn = "grass" -> {0, NaN}
NonRefRows == {[qn \in Range(order) |-> IF qn = order[1] THEN 1 ELSE NaN]}
RowsOf(id) == IF id \in Range(REF_IDs)
              THEN {r \in [Range(order) -> Answers \cup {NaN}] :
                      \A qn \in Range(order) : r[qn] \in CellValues(qn)}
              ELSE NonRefRows
YearsOf(id) == IF id \in Range(REF_IDs) THEN Years ELSE {1973}

\* The row labels of the table read: every respondent, or any non-empty
\* set of them that lacks a reference respondent.
Tables == {IDS} \cup {S \in SUBSET IDS : S # {} /\ ~(Range(REF_IDs) \subseteq S)}

Init ==
    /\ pc = "sample"
    /\ err = "none"
    /\ \E idx \in Tables :
         \E cell \in [idx -> [Range(order) -> Answers \cup {NaN}]],
            year \in [idx -> Years] :
           /\ \A id \in idx : cell[id] \in RowsOf(id) /\ year[id] \in YearsOf(id)
           /\ questions = [index |-> idx, cell |-> cell, year |-> year]
    /\ rng = seed % RngMod
    /\ iters = 0
    /\ subset = <<>>
    /\ q = None
    /\ long_q = <<>>
    /\ q_cat = None
    /\ id_cat = None
    /\ coords = None
    /\ m1 = None /\ m2 = None /\ m3 = None /\ m4 = None
    /\ idata1 = None /\ idata2 = None /\ idata3 = None /\ idata4 = None
    /\ files = [f \in FileNames |-> None]
    /\ sorted_q = <<>>
    /\ forest = None
    /\ pp1 = None /\ pp2 = None /\ pp3 = None
    /\ pp32 = None /\ pp4 = None /\ pp42 = None
    /\ years = None /\ sorted_years = None
    /\ q_year_cat = None /\ sorted_years_cat = None /\ id_year_cat = None
    /\ loaded = None
    /\ writes = [n \in SetNames |-> 0]

\* ------------------------------------------------------- lines 270-274
\* One iteration of the subsampling loop: questions.sample(5_000, random_state=rng)
\* draws SampleSize distinct rows in a random order and advances rng.
Samples(tbl) == {s \in [1..SampleSize -> tbl.index] :
                    \A i, j \in 1..SampleSize : i # j => s[i] # s[j]}
\* An exit test that is content with either reference respondent.
RefInSampleEither(idxs) == REF_IDs[1] \in Range(idxs) \/ REF_IDs[2] \in Range(idxs)
RefInSample(idxs) == REF_IDs[1] \in Range(idxs) /\ REF_IDs[2] \in Range(idxs)

\* sample(n) without replacement raises ValueError when the table has fewer
\* than n rows.
CanSample(tbl) == Cardinality(tbl.index) >= SampleSize

Subsample ==
    /\ pc = "sample"
    /\ iters < MaxIters
    /\ IF CanSample(questions)
       THEN /\ \E s \in Samples(questions) :
                 /\ subset' = s
                 /\ pc' = IF RefInSample(s) THEN "melt" ELSE "sample"
            /\ rng' = NextRng(rng)
            /\ iters' = iters + 1
            /\ err' = err
       ELSE /\ pc' = "crashed"
            /\ err' = "ValueError"
            /\ UNCHANGED <<subset, rng, iters>>
    /\ UNCHANGED <<questions, q, long_q, gCat, coords, gModel, gIdata, gSumm,
                   gPP, gYear, loaded, writes>>

\* The iterations of the loop after the ones iters counts: the loop has no
\* bound of its own, the counter stays at its cap.
SubsampleOn ==
    /\ pc = "sample"
    /\ iters = MaxIters
    /\ CanSample(questions)
    /\ \E s \in Samples(questions) :
         /\ subset' = s
         /\ pc' = IF RefInSample(s) THEN "melt" ELSE "sample"
    /\ rng' = NextRng(rng)
    /\ UNCHANGED <<err, iters, questions, q, long_q, gCat, coords, gModel, gIdata,
                   gSumm, gPP, gYear, loaded, writes>>

\* ------------------------------------------------------- lines 276-288
\* q = subset.copy(); q["id"] = q.index
CopyWithId(tbl, rows) ==
    [index |-> rows,
     cell |-> [id \in Range(rows) |-> tbl.cell[id]],
     year |-> [id \in Range(rows) |-> tbl.year[id]],
     id |-> [id \in Range(rows) |-> id]]

\* pd.melt(q, value_vars=q.columns[:-2], id_vars=["id"]): one row per
\* (question column, table row), question-major.
Melt(t) ==
    LET n == Len(t.index)
    IN [k \in 1..(Len(order) * n) |->
          LET col == order[((k - 1) \div n) + 1]
              row == t.index[((k - 1) % n) + 1]
          IN [id |-> t.id[row], question |-> col, answer |-> t.cell[row][col]]]

\* A melt whose rows with a missing answer are kept.
DropNaKeepsAll(s) == s
\* .dropna()
DropNa(s) == SelectSeq(s, LAMBDA r : ~IsNaN(r.answer))

\* sort_values(by="id"): the default quicksort is not stable, so any order of
\* the rows that is non-decreasing in id can come out.
SortValuesById(s) ==
    {t \in {[i \in 1..Len(s) |-> s[p[i]]] : p \in Permutations(1..Len(s))} :
        \A i \in 1..(Len(t) - 1) : t[i].id <= t[i + 1].id}

\* long_q.join(q["year"], on="id")
JoinYear(s, t) ==
    [i \in 1..Len(s) |->
       [id |-> s[i].id, question |-> s[i].question, answer |-> s[i].answer,
        year |-> t.year[s[i].id]]]

BuildLongQ ==
    /\ pc = "melt"
    /\ LET q1 == CopyWithId(questions, subset)
       IN /\ q' = q1
          /\ \E s \in SortValuesById(DropNa(Melt(q1))) : long_q' = JoinYear(s, q1)
    /\ pc' = "encode"
    /\ UNCHANGED <<err, questions, rng, iters, subset, gCat, coords, gModel, gIdata,
                   gSumm, gPP, gYear, loaded, writes>>

\* ------------------------------------------------------- lines 290-294
\* long_q[name]: one column of the long table.
Column(s, name) == [i \in 1..Len(s) |-> s[i][name]]

\* Encoders whose respondent codes come from the rows of q.
EncodeFromQ ==
    /\ pc = "encode"
    /\ q_cat' = CategoricalName(Column(long_q, "question"))
    /\ id_cat' = CategoricalInt([i \in 1..Len(q.index) |-> q.id[q.index[i]]])
    /\ pc' = "m1"
    /\ UNCHANGED <<err, rng, iters, gData, coords, gModel, gIdata, gSumm, gPP, gYear,
                   loaded, writes>>
Encode ==
    /\ pc = "encode"
    /\ q_cat' = CategoricalName(Column(long_q, "question"))
    /\ id_cat' = CategoricalInt(Column(long_q, "id"))
    /\ pc' = "m1"
    /\ UNCHANGED <<err, rng, iters, gData, coords, gModel, gIdata, gSumm, gPP, gYear,
                   loaded, writes>>

\* ------------------------------------------------------- lines 298-312
\* coords = {"question": q_cat.categories, "respondent": id_cat.categories}
Coords2(qc, idc) == [question |-> qc.categories, respondent |-> idc.categories]

\* The unpooled model m1 and the partially pooled m2 (lines 397-409): the
\* likelihood indexes e and d by the per-observation codes.
IrtModel(name, c, idc, qc, lq, esigma) ==
    [name |-> name, coords |-> c, e_sigma |-> esigma,
     rcodes |-> idc.codes, qcodes |-> qc.codes,
     observed |-> Column(lq, "answer")]

\* A logit that adds the difficulty.
LogitM12PlusD(m, th, i) == Take(th.e, m.rcodes[i]) + Take(th.d, m.qcodes[i])
\* logit_p = e[id_cat.codes] - d[q_cat.codes], for observation i
LogitM12(m, th, i) == Take(th.e, m.rcodes[i]) - Take(th.d, m.qcodes[i])

BuildM1 ==
    /\ pc = "m1"
    /\ coords' = Coords2(q_cat, id_cat)
    /\ m1' = IrtModel("m1", coords', id_cat, q_cat, long_q, "4")
    /\ pc' = "fit1"
    /\ UNCHANGED <<err, rng, iters, gData, gCat, m2, m3, m4, gIdata, gSumm, gPP, gYear,
                   loaded, writes>>

\* ------------------------------------------------------- lines 316-318
\* The parameter values of one (chain, draw) of the posterior of `name`: the
\* sampler is deterministic in the seed it draws from rng.
ParamPos(c, dr) == (c * 11) + (dr * 29)
DVals(c0, sd, b) == [j \in 1..Len(c0.question) |-> Draw(sd, b + j, 3) - 1]
EVals(c0, sd, b) == [i \in 1..Len(c0.respondent) |-> Draw(sd, b + 5 + i, 5) - 2]
Theta(name, c0, sd, c, dr) ==
    LET b == ParamPos(c, dr)
        dd == DVals(c0, sd, b)
        ee == EVals(c0, sd, b)
        es == 1 + Draw(sd, b + 17, 2)
        cy == Draw(sd, b + 19, 3) - 1
        pz == Draw(sd, b + 23, 2)
        pe == Draw(sd, b + 27, 2)
    IN CASE name = "m1" -> [d |-> dd, e |-> ee]
         [] name = "m2" -> [d |-> dd, e_std |-> es, e |-> ee]
         [] name = "m3" -> [d |-> dd, e_std |-> es, e |-> ee,
                            conservatism_year_effect |-> cy]
         [] name = "m4" -> [d |-> dd, polarization_year_zero |-> pz,
                            polarization_year_effect |-> pe, e |-> ee,
                            conservatism_year_effect |-> cy]

\* A sampler seeded with the integer seed instead of the generator.
SampleFixedSeed(m, sd) ==
    [model |-> m.name, coords |-> m.coords, seed |-> seed % RngMod,
     posterior |-> [c \in 1..NumChains |->
                      [dr \in 1..NumDraws |->
                         Theta(m.name, m.coords, seed % RngMod, c, dr)]]]
\* pm.sample(nuts_sampler="numpyro", random_seed=rng)
Sample(m, sd) ==
    [model |-> m.name, coords |-> m.coords, seed |-> sd,
     posterior |-> [c \in 1..NumChains |->
                      [dr \in 1..NumDraws |-> Theta(m.name, m.coords, sd, c, dr)]]]

Wrote(w, names) == [n \in SetNames |-> IF n \in names THEN w[n] + 1 ELSE w[n]]

SampleM1 ==
    /\ pc = "fit1"
    /\ idata1' = Sample(m1, rng)
    /\ rng' = NextRng(rng)
    /\ files' = [files EXCEPT !["idata1.nc"] = idata1']
    /\ writes' = Wrote(writes, {"idata1", "idata1.nc"})
    /\ pc' = "summ1"
    /\ UNCHANGED <<err, iters, gData, gCat, coords, gModel, idata2, idata3, idata4,
                   gSumm, gPP, gYear, loaded>>

\* ------------------------------------------------------- lines 322-324
Pairs == {<<c, dr>> : c \in 1..NumChains, dr \in 1..NumDraws}
RECURSIVE SumOver(_, _, _, _)
SumOver(idata, par, j, P) ==
    IF P = {} THEN 0
    ELSE LET x == CHOOSE y \in P : TRUE
         IN idata.posterior[x[1]][x[2]][par][j] + SumOver(idata, par, j, P \ {x})
\* posterior[par].mean(("chain", "draw")) at position j, times the number of
\* (chain, draw) pairs: the sum orders and ties exactly as the mean does.
MeanTimesN(idata, par, j) == SumOver(idata, par, j, Pairs)

\* labels.sortby(key): a stable sort of the labels by increasing key (the
\* keys kv are computed once).
SortBy(labels, key) ==
    LET n == Len(labels)
        pos(kv, i) == 1 + Cardinality({j \in 1..n :
                            kv[j] < kv[i] \/ (kv[j] = kv[i] /\ j < i)})
    IN CHOOSE out \in {[k \in 1..n |-> labels[CHOOSE i \in 1..n : pos(kv, i) = k]] :
                         kv \in {key}} : TRUE

\* idata.posterior["question"].sortby(-d_means)
SortedQ(idata) ==
    SortBy(idata.coords.question,
           [j \in 1..Len(idata.coords.question) |-> 0 - MeanTimesN(idata, "d", j)])

Summary1 ==
    /\ pc = "summ1"
    /\ sorted_q' = SortedQ(idata1)
    /\ pc' = "pp1"
    /\ UNCHANGED <<err, rng, iters, gData, gCat, coords, gModel, gIdata, forest, gPP,
                   gYear, loaded, writes>>

\* ------------------------------------------------------- lines 336-360
\* A Bernoulli(logit_p) draw: a uniform draw of 0..3 against the probability.
Quarter(l) == IF l < 0 THEN 1 ELSE IF l = 0 THEN 2 ELSE 3
Bernoulli(sd, k, l) == IF Draw(sd, k, 4) < Quarter(l) THEN 1 ELSE 0

\* A sum that stops at the first element.
SumSeqFirst(s) == IF s = <<>> THEN 0 ELSE Head(s)
RECURSIVE SumSeq(_)
SumSeq(s) == IF s = <<>> THEN 0 ELSE Head(s) + SumSeq(Tail(s))

\* logit_p = e[:, None] - d (with yeff = 0), or
\* logit_p = (e + conservatism_year_effect * codes)[:, None] - d
OuterLogit(th, yeff, r, j) == (th.e[r] + yeff[r]) - th.d[j]

\* One (chain, draw) of a Resample-mode predictive model: response has dims
\* (respondent, question); response_sum = response.sum(axis=-1).
ResampleDraw(c0, th, yeff, sd, b) ==
    LET R == Len(c0.respondent)
        Q == Len(c0.question)
        lp == [r \in 1..R |-> [j \in 1..Q |-> OuterLogit(th, yeff, r, j)]]
        resp == [r \in 1..R |-> [j \in 1..Q |->
                    Bernoulli(sd, b + (r * 7) + j, lp[r][j])]]
    IN [logit_p |-> lp, response |-> resp,
        response_sum |-> [r \in 1..R |-> SumSeq(resp[r])]]

NoYear(c0, th) == [r \in 1..Len(c0.respondent) |-> 0]

\* pm.sample_posterior_predictive(idata, var_names=["response_sum"],
\*                                predictions=True, random_seed=rng)
Resample(name, c0, idata, sd) ==
    [name |-> name, coords |-> c0, source |-> idata.model, seed |-> sd,
     predictions |->
       [c \in 1..NumChains |-> [dr \in 1..NumDraws |->
          ResampleDraw(c0, idata.posterior[c][dr],
                       NoYear(c0, idata.posterior[c][dr]), sd, ParamPos(c, dr))]]]

PostPred1 ==
    /\ pc = "pp1"
    /\ pp1' = Resample("pp1", coords, idata1, rng)
    /\ rng' = NextRng(rng)
    /\ writes' = Wrote(writes, {"pp1"})
    /\ pc' = "m2"
    /\ UNCHANGED <<err, iters, gData, gCat, coords, gModel, gIdata, gSumm,
                   pp2, pp3, pp32, pp4, pp42, gYear, loaded>>

\* ------------------------------------------------------- lines 393-415
BuildM2 ==
    /\ pc = "m2"
    /\ coords' = Coords2(q_cat, id_cat)
    /\ m2' = IrtModel("m2", coords', id_cat, q_cat, long_q, "e_std")
    /\ pc' = "fit2"
    /\ UNCHANGED <<err, rng, iters, gData, gCat, m1, m3, m4, gIdata, gSumm, gPP, gYear,
                   loaded, writes>>

SampleM2 ==
    /\ pc = "fit2"
    /\ idata2' = Sample(m2, rng)
    /\ rng' = NextRng(rng)
    /\ files' = [files EXCEPT !["idata2.nc"] = idata2']
    /\ writes' = Wrote(writes, {"idata2", "idata2.nc"})
    /\ pc' = "cmp2"
    /\ UNCHANGED <<err, iters, gData, gCat, coords, gModel, idata1, idata3, idata4,
                   gSumm, gPP, gYear, loaded>>

\* ------------------------------------------------------- lines 424-436
\* compare_models(*idata): the forest plot shows, for every model, the
\* summary of d for the questions selected by label in the order sorted_q.
\* The last posterior as the reference.
ReferenceLast(idata) == idata[Len(idata)]
Reference(idata) == idata[1]

ForestRow(i, idata, labels) ==
    [model_name |-> i,
     d |-> [k \in 1..Len(labels) |->
              [question |-> labels[k],
               mean_times_n |->
                 MeanTimesN(idata, "d", IndexOf(idata.coords.question, labels[k]))]]]

compare_models(idata) ==
    LET sq == SortedQ(Reference(idata))
    IN [sorted_q |-> sq,
        rows |-> [i \in 1..Len(idata) |-> ForestRow(i, idata[i], sq)]]

Compare(at, to, idata) ==
    /\ pc = at
    /\ forest' = compare_models(idata)
    /\ pc' = to
    /\ UNCHANGED <<err, rng, iters, gData, gCat, coords, gModel, gIdata, sorted_q, gPP,
                   gYear, loaded, writes>>

Compare12 == Compare("cmp2", "pp2", <<idata1, idata2>>)

\* ------------------------------------------------------- lines 448-472
\* A second predictive set bound to the name of the first.
PostPred2Overwrite ==
    /\ pc = "pp2"
    /\ pp1' = Resample("pp2", coords, idata2, rng)
    /\ rng' = NextRng(rng)
    /\ writes' = Wrote(writes, {"pp1"})
    /\ pc' = "years1"
    /\ UNCHANGED <<err, iters, gData, gCat, coords, gModel, gIdata, gSumm,
                   pp2, pp3, pp32, pp4, pp42, gYear, loaded>>
PostPred2 ==
    /\ pc = "pp2"
    /\ pp2' = Resample("pp2", coords, idata2, rng)
    /\ rng' = NextRng(rng)
    /\ writes' = Wrote(writes, {"pp2"})
    /\ pc' = "years1"
    /\ UNCHANGED <<err, iters, gData, gCat, coords, gModel, gIdata, gSumm,
                   pp1, pp3, pp32, pp4, pp42, gYear, loaded>>

\* ------------------------------------------------------- lines 503-504
\* years = q[q.iloc[:, :-2].isna().sum(1) > 0]["year"]: the year of every row
\* of q with at least one missing answer, in the row order of q.
HasNaN(t, id) == \E qn \in Range(order) : IsNaN(t.cell[id][qn])
YearsSeries(t) ==
    LET idx == SelectSeq(t.index, LAMBDA id : HasNaN(t, id))
    IN [index |-> idx, values |-> [i \in 1..Len(idx) |-> t.year[idx[i]]]]

\* series[labels]: a label missing from the index raises KeyError.
HasLabels(series, labels) == Range(labels) \subseteq Range(series.index)
\* A selection by position instead of by label.
SelectLabelsPositional(series, labels) ==
    [index |-> labels,
     values |-> [i \in 1..Len(labels) |-> series.values[i]]]
SelectLabels(series, labels) ==
    [index |-> labels,
     values |-> [i \in 1..Len(labels) |->
                   series.values[IndexOf(series.index, labels[i])]]]

\* years / sorted_years, and at line 583 sorted_years_cat = pd.Categorical(sorted_years)
YearsLookup(at, to, withCat) ==
    /\ pc = at
    /\ years' = YearsSeries(q)
    /\ IF HasLabels(years', id_cat.categories)
       THEN /\ sorted_years' = SelectLabels(years', id_cat.categories)
            /\ sorted_years_cat' =
                 IF withCat THEN CategoricalInt(sorted_years'.values)
                 ELSE sorted_years_cat
            /\ pc' = to
            /\ err' = err
       ELSE /\ pc' = "crashed"
            /\ err' = "KeyError"
            /\ UNCHANGED <<sorted_years, sorted_years_cat>>
    /\ UNCHANGED <<rng, iters, gData, gCat, coords, gModel, gIdata, gSumm, gPP,
                   q_year_cat, id_year_cat, loaded, writes>>

YearsLookup1 == YearsLookup("years1", "yearcat", FALSE)

\* ------------------------------------------------------- lines 526-558
EncodeYear ==
    /\ pc = "yearcat"
    /\ q_year_cat' = CategoricalInt(Column(long_q, "year"))
    /\ pc' = "m3"
    /\ UNCHANGED <<err, rng, iters, gData, gCat, coords, gModel, gIdata, gSumm, gPP,
                   years, sorted_years, sorted_years_cat, id_year_cat, loaded, writes>>

\* Coordinates that list the questions in the column order of the table.
Coords3ColumnOrder(qc, idc, yc) ==
    [question |-> SelectSeq(order, LAMBDA n : n \in Range(qc.categories)),
     respondent |-> idc.categories, year |-> yc.categories]
\* coords = {"question": ..., "respondent": ..., "year": q_year_cat.categories}
Coords3(qc, idc, yc) ==
    [question |-> qc.categories, respondent |-> idc.categories,
     year |-> yc.categories]

\* m3: the observation's year code enters the logit.
TrendModel(name, c, idc, qc, yc, lq, esigma) ==
    [name |-> name, coords |-> c, e_sigma |-> esigma,
     rcodes |-> idc.codes, qcodes |-> qc.codes, ycodes |-> yc.codes,
     observed |-> Column(lq, "answer")]

\* A logit without the year term.
LogitM34NoYear(m, th, i) == Take(th.e, m.rcodes[i]) - Take(th.d, m.qcodes[i])
\* logit_p = e[id_cat.codes] + conservatism_year_effect * q_year_cat.codes
\*           - d[q_cat.codes], for observation i
LogitM34(m, th, i) ==
    (Take(th.e, m.rcodes[i]) + (th.conservatism_year_effect * m.ycodes[i]))
    - Take(th.d, m.qcodes[i])

BuildM3 ==
    /\ pc = "m3"
    /\ coords' = Coords3(q_cat, id_cat, q_year_cat)
    /\ m3' = TrendModel("m3", coords', id_cat, q_cat, q_year_cat, long_q, "e_std")
    /\ pc' = "fit3"
    /\ UNCHANGED <<err, rng, iters, gData, gCat, m1, m2, m4, gIdata, gSumm, gPP, gYear,
                   loaded, writes>>

SampleM3 ==
    /\ pc = "fit3"
    /\ idata3' = Sample(m3, rng)
    /\ rng' = NextRng(rng)
    /\ files' = [files EXCEPT !["idata3.nc"] = idata3']
    /\ writes' = Wrote(writes, {"idata3", "idata3.nc"})
    /\ pc' = "cmp3"
    /\ UNCHANGED <<err, iters, gData, gCat, coords, gModel, idata1, idata2, idata4,
                   gSumm, gPP, gYear, loaded>>

Compare123 == Compare("cmp3", "years2", <<idata1, idata2, idata3>>)

\* ------------------------------------------------------- lines 579-617
YearsLookup2 == YearsLookup("years2", "pp3", TRUE)

\* conservatism_year_effect * sorted_years_cat.codes, one entry per respondent
YearEffect(th, codes) ==
    [r \in 1..Len(codes) |-> th.conservatism_year_effect * codes[r]]

\* e + conservatism_year_effect * codes broadcasts only for equal lengths
\* (or a length of one).
Broadcasts(c0, codes) ==
    Len(codes) = Len(c0.respondent) \/ Len(codes) = 1 \/ Len(c0.respondent) = 1

ResampleTrend(name, c0, idata, codes, sd) ==
    [name |-> name, coords |-> c0, source |-> idata.model, seed |-> sd,
     predictions |->
       [c \in 1..NumChains |-> [dr \in 1..NumDraws |->
          ResampleDraw(c0, idata.posterior[c][dr],
                       YearEffect(idata.posterior[c][dr], codes), sd,
                       ParamPos(c, dr))]]]

PostPred3 ==
    /\ pc = "pp3"
    /\ IF Broadcasts(coords, sorted_years_cat.codes)
       THEN /\ pp3' = ResampleTrend("pp3", coords, idata3, sorted_years_cat.codes, rng)
            /\ rng' = NextRng(rng)
            /\ writes' = Wrote(writes, {"pp3"})
            /\ pc' = "years3"
            /\ err' = err
       ELSE /\ pc' = "crashed"
            /\ err' = "ValueError"
            /\ UNCHANGED <<pp3, rng, writes>>
    /\ UNCHANGED <<iters, gData, gCat, coords, gModel, gIdata, gSumm,
                   pp1, pp2, pp32, pp4, pp42, gYear, loaded>>

\* ------------------------------------------------------- lines 627-628
YearsLookup3 == YearsLookup("years3", "pp32", FALSE)

\* ------------------------------------------------------- lines 663-690
\* Forecast for a new respondent under m3: e_new is one scalar per
\* (chain, draw), drawn from Normal(0, e_std) with that draw's e_std;
\* years = np.arange(len(q_year_cat.categories)).
Arange(n) == [i \in 1..n |-> i - 1]

\* e_new = pm.Normal("e_new", mu=0, sigma=e_std): a scalar.
ENew3(th, sd, b) ==
    [scale |-> th.e_std, value |-> th.e_std * (Draw(sd, b + 31, 3) - 1)]

ForecastDraw3(c0, yc, th, sd, b) ==
    LET yrs == Arange(Len(yc.categories))
        Q == Len(c0.question)
        en == ENew3(th, sd, b)
        lp == [y \in 1..Len(yrs) |-> [j \in 1..Q |->
                 (en.value + (th.conservatism_year_effect * yrs[y])) - th.d[j]]]
    IN [e_new |-> <<en>>, e_new_dims |-> <<>>, logit_p |-> lp,
        p |-> [y \in 1..Len(yrs) |-> [j \in 1..Q |-> [invlogit |-> lp[y][j]]]],
        response |-> [y \in 1..Len(yrs) |-> [j \in 1..Q |->
                        Bernoulli(sd, b + (y * 7) + j, lp[y][j])]]]

Forecast3(name, c0, yc, idata, sd) ==
    [name |-> name, coords |-> c0, source |-> idata.model, seed |-> sd,
     predictions |->
       [c \in 1..NumChains |-> [dr \in 1..NumDraws |->
          ForecastDraw3(c0, yc, idata.posterior[c][dr], sd, ParamPos(c, dr))]]]

\* p and response have dims ("year", "question"): the grid must have the
\* lengths of the coordinates.
GridFits(c0, n) == n = Len(c0.year)

PostPred32 ==
    /\ pc = "pp32"
    /\ IF GridFits(coords, Len(q_year_cat.categories))
       THEN /\ pp32' = Forecast3("pp32", coords, q_year_cat, idata3, rng)
            /\ rng' = NextRng(rng)
            /\ writes' = Wrote(writes, {"pp32"})
            /\ pc' = "idyear"
            /\ err' = err
       ELSE /\ pc' = "crashed"
            /\ err' = "ValueError"
            /\ UNCHANGED <<pp32, rng, writes>>
    /\ UNCHANGED <<iters, gData, gCat, coords, gModel, gIdata, gSumm,
                   pp1, pp2, pp3, pp4, pp42, gYear, loaded>>

\* ------------------------------------------------------- lines 736-773
\* long_q.groupby("id")["year"].first(): one entry per distinct id, in
\* increasing id, holding the year of the first row of that id.
GroupByIdFirstYear(lq) ==
    LET ids == SortedBy({lq[i].id : i \in 1..Len(lq)}, IntRank(Column(lq, "id")))
        first(id) == CHOOSE i \in 1..Len(lq) :
                        lq[i].id = id /\ \A j \in 1..(i - 1) : lq[j].id # id
    IN [index |-> ids, values |-> [k \in 1..Len(ids) |-> lq[first(ids[k])].year]]

\* The years of the rows of q, in the row order of q.
IdYearCatFromQ(lq) == CategoricalInt([i \in 1..Len(q.index) |-> q.year[q.index[i]]])
IdYearCat(lq) == CategoricalInt(GroupByIdFirstYear(lq).values)

EncodeIdYear ==
    /\ pc = "idyear"
    /\ id_year_cat' = IdYearCat(long_q)
    /\ pc' = "m4"
    /\ UNCHANGED <<err, rng, iters, gData, gCat, coords, gModel, gIdata, gSumm, gPP,
                   years, sorted_years, q_year_cat, sorted_years_cat, loaded, writes>>

\* m4: e_std = exp(polarization_year_zero + polarization_year_effect *
\* id_year_cat.codes) is the scale of e, one entry per respondent.
PolarModel(c, idc, qc, yc, iyc, lq) ==
    [name |-> "m4", coords |-> c, e_sigma |-> "exp",
     rcodes |-> idc.codes, qcodes |-> qc.codes, ycodes |-> yc.codes,
     scodes |-> iyc.codes, observed |-> Column(lq, "answer")]

\* The exponent of the scale of e[i] (i is the 0-based respondent code).
LogEStdM4(m, th, i) ==
    th.polarization_year_zero + (th.polarization_year_effect * m.scodes[i + 1])

\* e has dims ("respondent",): its scale must have that length (or one).
ScaleFits(c0, codes) == Len(codes) = Len(c0.respondent) \/ Len(codes) = 1

BuildM4 ==
    /\ pc = "m4"
    /\ coords' = Coords3(q_cat, id_cat, q_year_cat)
    /\ IF ScaleFits(coords', id_year_cat.codes)
       THEN /\ m4' = PolarModel(coords', id_cat, q_cat, q_year_cat, id_year_cat, long_q)
            /\ pc' = "fit4"
            /\ err' = err
       ELSE /\ pc' = "crashed"
            /\ err' = "ValueError"
            /\ m4' = m4
    /\ UNCHANGED <<rng, iters, gData, gCat, m1, m2, m3, gIdata, gSumm, gPP, gYear,
                   loaded, writes>>

SampleM4 ==
    /\ pc = "fit4"
    /\ idata4' = Sample(m4, rng)
    /\ rng' = NextRng(rng)
    /\ files' = [files EXCEPT !["idata4.nc"] = idata4']
    /\ writes' = Wrote(writes, {"idata4", "idata4.nc"})
    /\ pc' = "cmp4"
    /\ UNCHANGED <<err, iters, gData, gCat, coords, gModel, idata1, idata2, idata3,
                   gSumm, gPP, gYear, loaded>>

Compare1234 == Compare("cmp4", "pp4", <<idata1, idata2, idata3, idata4>>)

\* ------------------------------------------------------- lines 789-820
PostPred4 ==
    /\ pc = "pp4"
    /\ IF Broadcasts(coords, sorted_years_cat.codes)
       THEN /\ pp4' = ResampleTrend("pp4", coords, idata4, sorted_years_cat.codes, rng)
            /\ rng' = NextRng(rng)
            /\ writes' = Wrote(writes, {"pp4"})
            /\ pc' = "pp42"
            /\ err' = err
       ELSE /\ pc' = "crashed"
            /\ err' = "ValueError"
            /\ UNCHANGED <<pp4, rng, writes>>
    /\ UNCHANGED <<iters, gData, gCat, coords, gModel, gIdata, gSumm,
                   pp1, pp2, pp3, pp32, pp42, gYear, loaded>>

\* ------------------------------------------------------- lines 838-875
\* exp on the non-negative integers the model draws for the exponent.
RECURSIVE Exp(_)
Exp(x) == IF x <= 0 THEN 1 ELSE 2 * Exp(x - 1)

\* Forecast for a new respondent under m4: e_new has dims ("year",), one
\* value per year, with scale exp(polarization_year_zero +
\* polarization_year_effect * id_years), id_years = arange(len(id_year_cat.categories)).
\* A forecast whose scale leaves the year out.
ENew4NoYear(c0, iyc, th, sd, b) ==
    [y \in 1..Len(c0.year) |->
       [scale |-> [exp |-> th.polarization_year_zero],
        value |-> Exp(th.polarization_year_zero) * (Draw(sd, b + 31 + y, 3) - 1)]]
\* e_new = pm.Normal("e_new", mu=0, sigma=e_std, dims=("year",))
ENew4(c0, iyc, th, sd, b) ==
    LET id_years == Arange(Len(iyc.categories))
    IN [y \in 1..Len(c0.year) |->
          LET x == th.polarization_year_zero
                   + (th.polarization_year_effect * id_years[y])
          IN [scale |-> [exp |-> x],
              value |-> Exp(x) * (Draw(sd, b + 31 + y, 3) - 1)]]

ForecastDraw4(c0, yc, iyc, th, sd, b) ==
    LET q_years == Arange(Len(yc.categories))
        Q == Len(c0.question)
        en == ENew4(c0, iyc, th, sd, b)
        lp == [y \in 1..Len(q_years) |-> [j \in 1..Q |->
                 (en[y].value + (th.conservatism_year_effect * q_years[y])) - th.d[j]]]
    IN [e_new |-> en, e_new_dims |-> <<"year">>, logit_p |-> lp,
        p |-> [y \in 1..Len(q_years) |-> [j \in 1..Q |-> [invlogit |-> lp[y][j]]]],
        response |-> [y \in 1..Len(q_years) |-> [j \in 1..Q |->
                        Bernoulli(sd, b + (y * 7) + j, lp[y][j])]]]

Forecast4(name, c0, yc, iyc, idata, sd) ==
    [name |-> name, coords |-> c0, source |-> idata.model, seed |-> sd,
     predictions |->
       [c \in 1..NumChains |-> [dr \in 1..NumDraws |->
          ForecastDraw4(c0, yc, iyc, idata.posterior[c][dr], sd, ParamPos(c, dr))]]]

PostPred42 ==
    /\ pc = "pp42"
    /\ IF /\ GridFits(coords, Len(q_year_cat.categories))
          /\ GridFits(coords, Len(id_year_cat.categories))
       THEN /\ pp42' = Forecast4("pp42", coords, q_year_cat, id_year_cat, idata4, rng)
            /\ rng' = NextRng(rng)
            /\ writes' = Wrote(writes, {"pp42"})
            /\ pc' = "done"
            /\ err' = err
       ELSE /\ pc' = "crashed"
            /\ err' = "ValueError"
            /\ UNCHANGED <<pp42, rng, writes>>
    /\ UNCHANGED <<iters, gData, gCat, coords, gModel, gIdata, gSumm,
                   pp1, pp2, pp3, pp32, pp4, gYear, loaded>>

\* ------------------------------------------ load_mcmc_results_example.py
\* idata1 = az.from_netcdf("idata1.nc"), then the posterior means of d and e
\* as data frames.  The script is run after the notebook has ended, when the
\* file is there.
MeanFrame(idata, par, labels) ==
    [k \in 1..Len(labels) |->
       [label |-> labels[k], mean_times_n |-> MeanTimesN(idata, par, k)]]

LoadExample ==
    /\ loaded = None
    /\ pc \in {"done", "crashed"}
    /\ files["idata1.nc"] # None
    /\ loaded' = [idata1 |-> files["idata1.nc"],
                  d |-> MeanFrame(files["idata1.nc"], "d",
                                  files["idata1.nc"].coords.question),
                  e |-> MeanFrame(files["idata1.nc"], "e",
                                  files["idata1.nc"].coords.respondent)]
    /\ UNCHANGED <<pc, err, rng, iters, gData, gCat, coords, gModel, gIdata, gSumm,
                   gPP, gYear, writes>>

Next ==
    \/ Subsample
    \/ BuildLongQ
    \/ Encode
    \/ BuildM1
    \/ SampleM1
    \/ Summary1
    \/ PostPred1
    \/ BuildM2
    \/ SampleM2
    \/ Compare12
    \/ PostPred2
    \/ YearsLookup1
    \/ EncodeYear
    \/ BuildM3
    \/ SampleM3
    \/ Compare123
    \/ YearsLookup2
    \/ PostPred3
    \/ YearsLookup3
    \/ PostPred32
    \/ EncodeIdYear
    \/ BuildM4
    \/ SampleM4
    \/ Compare1234
    \/ PostPred4
    \/ PostPred42
    \/ LoadExample

Spec == Init /\ [][Next]_vars

\* The subsampling loop alone, run without a bound on its iterations, up to
\* the statement after it.  A draw that holds both reference respondents is
\* possible at every iteration of a table that has them, so under fair
\* random draws it is eventually made.
SubsampleHit == (Subsample \/ SubsampleOn) /\ RefInSample(subset')
NextLoop ==
    \/ Subsample
    \/ SubsampleOn
    \/ BuildLongQ
LoopSpec == Init /\ [][NextLoop]_vars /\ WF_vars(SubsampleHit)

\* ======================================================================
\* Properties
\* ======================================================================
Rows == 1..Len(long_q)
ObsIds == {long_q[i].id : i \in Rows}
ObsQuestions == {long_q[i].question : i \in Rows}
ObsYears == {long_q[i].year : i \in Rows}
\* The dense code of a value: the number of present values below it.
IdCodeOf(id) == Cardinality({x \in ObsIds : x < id})
YearCodeOf(y) == Cardinality({x \in ObsYears : x < y})
QCodeOf(qn) == Cardinality({x \in ObsQuestions : QRank(x) < QRank(qn)})
Observed(id) == {i \in Rows : long_q[i].id = id}

\* C1: the long table holds exactly one observation for every non-missing
\* cell of a sampled respondent and none for a missing cell, and every
\* observation carries the cell's value and the respondent's row year.
C1_OneObservationPerCell ==
    q # None =>
      /\ \A id \in Range(subset), qn \in Range(order) :
           Cardinality({i \in Rows : long_q[i].id = id /\ long_q[i].question = qn})
             = IF questions.cell[id][qn] = NaN THEN 0 ELSE 1
      /\ \A i \in Rows :
           /\ long_q[i].id \in Range(subset)
           /\ long_q[i].question \in Range(order)
           /\ long_q[i].answer = questions.cell[long_q[i].id][long_q[i].question]
           /\ long_q[i].answer \in Answers
           /\ long_q[i].year = questions.year[long_q[i].id]

\* A respondent with exactly one answered cell beside one with none.
C1_Witness ==
    /\ pc = "encode"
    /\ \E a, b \in Range(subset) :
         /\ Cardinality(Observed(a)) = 1
         /\ Cardinality({qn \in Range(order) : questions.cell[a][qn] # NaN}) = 1
         /\ Observed(b) = {}
         /\ \A qn \in Range(order) : questions.cell[b][qn] = NaN
\* ----------------------------------------------------------------------
Present(S) == {x \in S : x # None}
Fitted == Present({m1, m2, m3, m4})
TrendFitted == Present({m3, m4})
Posteriors == Present({idata1, idata2, idata3, idata4})
Predictives == Present({pp1, pp2, pp3, pp32, pp4, pp42})
HasYear(c) == "year" \in DOMAIN c

\* C2: every fitted model, every posterior and every predictive set carries
\* the same question, respondent and year coordinates, the fitted models use
\* the same per-observation codes, and a code denotes the same question,
\* respondent or year in all of them.
C2_SameCodesEverywhere ==
    /\ \A a, b \in Fitted \cup Posteriors \cup Predictives :
         /\ a.coords.question = b.coords.question
         /\ a.coords.respondent = b.coords.respondent
         /\ (HasYear(a.coords) /\ HasYear(b.coords)) => a.coords.year = b.coords.year
    /\ \A a, b \in Fitted : a.rcodes = b.rcodes /\ a.qcodes = b.qcodes
    /\ \A a, b \in TrendFitted : a.ycodes = b.ycodes
    /\ \A m \in Fitted : \A i \in Rows :
         /\ Len(m.rcodes) = Len(long_q) /\ Len(m.qcodes) = Len(long_q)
         /\ m.coords.respondent[m.rcodes[i] + 1] = long_q[i].id
         /\ m.coords.question[m.qcodes[i] + 1] = long_q[i].question
    /\ \A m \in TrendFitted : \A i \in Rows :
         m.coords.year[m.ycodes[i] + 1] = long_q[i].year
    /\ \A a \in Present({pp3, pp4}) :
         /\ sorted_years_cat.categories = a.coords.year
         /\ \A r \in 1..Len(a.coords.respondent) :
              a.coords.year[sorted_years_cat.codes[r] + 1]
                = questions.year[a.coords.respondent[r]]
    /\ pp42 # None => id_year_cat.categories = pp42.coords.year

\* The whole pipeline has run on two respondents of different years.
C2_Witness ==
    /\ pc = "done"
    /\ Len(coords.respondent) = 2
    /\ Len(coords.year) = 2
    /\ Len(coords.question) = 3
    /\ coords.question # order
\* ----------------------------------------------------------------------
Seed0 == seed % RngMod
Chains == 1..NumChains
DrawsOf == 1..NumDraws
\* The notebook has run to its end or stopped on an exception.
RunEnded == pc \in {"done", "crashed"}

\* C4 as stated: in both forecasts every year of the grid has an e_new of
\* its own, which the cells of that year use.
C4_FreshENewPerYear ==
    \A pp \in Present({pp32, pp42}) : \A c \in Chains, dr \in DrawsOf :
      LET P == pp.predictions[c][dr]
      IN Len(P.e_new) >= Len(pp.coords.year)

\* One forecast draw: the grid of p and response over (year, question), the
\* logit of each cell, and the scale e_new was drawn with.
ForecastGrid(pp, P, th, en) ==
    LET K == Len(pp.coords.year)
        Q == Len(pp.coords.question)
    IN /\ DOMAIN P.p = 1..K /\ DOMAIN P.response = 1..K
       /\ \A y \in 1..K :
            /\ DOMAIN P.p[y] = 1..Q /\ DOMAIN P.response[y] = 1..Q
            /\ \A j \in 1..Q :
                 /\ P.logit_p[y][j] =
                      (en[y].value + (th.conservatism_year_effect * (y - 1))) - th.d[j]
                 /\ P.p[y][j] = [invlogit |-> P.logit_p[y][j]]
                 /\ P.response[y][j] \in {0, 1}

\* C4 (amended): per posterior draw the m3 forecast draws ONE scalar e_new
\* from Normal(0, e_std) with that draw's e_std, shared by all years; the m4
\* forecast draws one e_new per year with scale exp(polarization_year_zero +
\* polarization_year_effect * year code); both give p and a response for
\* every (year, question) cell.
C4_ForecastENew ==
    /\ pp32 # None => \A c \in Chains, dr \in DrawsOf :
         LET P == pp32.predictions[c][dr]
             th == idata3.posterior[c][dr]
             en == [y \in 1..Len(pp32.coords.year) |-> P.e_new[1]]
         IN /\ Len(P.e_new) = 1 /\ P.e_new_dims = <<>>
            /\ P.e_new[1].scale = th.e_std
            /\ P.e_new[1].value \in {0 - th.e_std, 0, th.e_std}
            /\ ForecastGrid(pp32, P, th, en)
    /\ pp42 # None => \A c \in Chains, dr \in DrawsOf :
         LET P == pp42.predictions[c][dr]
             th == idata4.posterior[c][dr]
             en == P.e_new
         IN /\ Len(P.e_new) = Len(pp42.coords.year) /\ P.e_new_dims = <<"year">>
            /\ \A y \in 1..Len(pp42.coords.year) :
                 P.e_new[y].scale =
                   [exp |-> th.polarization_year_zero
                            + (th.polarization_year_effect * (y - 1))]
            /\ ForecastGrid(pp42, P, th, en)

\* Both forecasts over two years, the m4 one with two different e_new.
C4_Witness ==
    /\ pp32 # None /\ pp42 # None
    /\ Len(coords.year) = 2
    /\ \E c \in Chains, dr \in DrawsOf :
         /\ pp42.predictions[c][dr].e_new[1].value
              # pp42.predictions[c][dr].e_new[2].value
         /\ pp42.predictions[c][dr].e_new[1].scale
              # pp42.predictions[c][dr].e_new[2].scale

\* C5 as stated: the result of a sampling call does not depend on how many
\* loop iterations ran before it -- it is what the same call gives after a
\* single iteration of the subsampling loop.
C5_SameWhateverRanBefore ==
    /\ idata1 # None =>
         idata1.posterior = Sample(m1, RngAfter(Seed0, 1)).posterior
    /\ pp1 # None =>
         pp1.predictions =
           Resample("pp1", pp1.coords, idata1, RngAfter(Seed0, 2)).predictions

SetsInOrder == <<idata1, pp1, idata2, pp2, idata3, pp3, pp32, idata4, pp4, pp42>>
Produced == Cardinality({k \in 1..Len(SetsInOrder) : SetsInOrder[k] # None})

\* C5 (amended): a call is deterministic in the model, the data and the
\* state of the shared generator when it is made; the k-th use of rng after
\* default_rng(seed) draws the k-th state of its stream, so a result
\* depends on the number of loop iterations and sampling calls before it.
\* (The sets a run ends with are recomputed from their seeds.)
C5_SeedIsStreamPosition ==
    /\ rng = RngAfter(Seed0, iters + Produced)
    /\ \A k \in 1..Len(SetsInOrder) :
         SetsInOrder[k] # None =>
           SetsInOrder[k].seed = RngAfter(Seed0, iters + (k - 1))
    /\ (RunEnded /\ idata1 # None) => idata1 = Sample(m1, idata1.seed)
    /\ (RunEnded /\ pp1 # None) =>
         pp1 = Resample("pp1", pp1.coords, idata1, pp1.seed)

\* A run whose loop took two iterations, and whose first posterior differs
\* from the one a single iteration gives.
C5_Witness ==
    /\ pc = "done"
    /\ iters = 2
    /\ idata1.posterior # Sample(m1, RngAfter(Seed0, 1)).posterior
\* ----------------------------------------------------------------------
\* The Resample-mode predictive sets, each with the posterior it reads.
ResampleSets ==
    {[pp |-> pp1, idata |-> idata1, trend |-> FALSE],
     [pp |-> pp2, idata |-> idata2, trend |-> FALSE],
     [pp |-> pp3, idata |-> idata3, trend |-> TRUE],
     [pp |-> pp4, idata |-> idata4, trend |-> TRUE]}

\* C6: in every Resample-mode set a run ends with, every (chain, draw) has
\* exactly one response_sum per respondent of the coordinate, the number
\* of 1-valued Bernoulli responses over ALL questions of the coordinate, so
\* between 0 and the number of questions; the responses are drawn with that draw's e[respondent] and
\* d[question] (and, with a trend, the respondent's year code).
C6_ResponseSumOverAllQuestions ==
    \A s \in ResampleSets : (RunEnded /\ s.pp # None) =>
      \A c \in Chains, dr \in DrawsOf :
        LET P == s.pp.predictions[c][dr]
            th == s.idata.posterior[c][dr]
            R == Len(s.pp.coords.respondent)
            Q == Len(s.pp.coords.question)
            yeff(r) == IF s.trend
                       THEN th.conservatism_year_effect
                            * YearCodeOf(questions.year[s.pp.coords.respondent[r]])
                       ELSE 0
        IN /\ DOMAIN P.response_sum = 1..R
           /\ Q = Cardinality(ObsQuestions)
           /\ \A r \in 1..R :
                /\ DOMAIN P.response[r] = 1..Q
                /\ P.response_sum[r] = Cardinality({j \in 1..Q : P.response[r][j] = 1})
                /\ P.response_sum[r] \in 0..Q
                /\ \A j \in 1..Q, ye \in {yeff(r)} :
                     /\ P.logit_p[r][j] = (th.e[r] + ye) - th.d[j]
                     /\ P.response[r][j] \in {0, 1}
                     /\ P.response[r][j] =
                          Bernoulli(s.pp.seed, ParamPos(c, dr) + (r * 7) + j,
                                    P.logit_p[r][j])

\* A respondent whose simulated sum exceeds the number of questions the
\* respondent answered, in the last Resample set of a complete run.
C6_Witness ==
    /\ pc = "done"
    /\ pp4 # None /\ pp1 # None
    /\ \E c \in Chains, dr \in DrawsOf, r \in 1..Len(pp4.coords.respondent) :
         /\ pp4.predictions[c][dr].response_sum[r]
              > Cardinality(Observed(pp4.coords.respondent[r]))
         /\ pp4.predictions[c][dr].response_sum[r] >= 2

\* The year of the first observation of a respondent.
FirstYear(id) ==
    long_q[CHOOSE i \in Observed(id) : \A j \in Observed(id) : i <= j].year
PolarProbes ==
    {[polarization_year_zero |-> 1, polarization_year_effect |-> 10]}
      \cup (IF idata4 = None THEN {}
            ELSE {idata4.posterior[c][dr] : c \in Chains, dr \in DrawsOf})

\* C7: in m4 the scale of e for the respondent with code i is
\* exp(polarization_year_zero + polarization_year_effect * c_i), c_i the
\* dense year code of the year of the first observation of the respondent
\* id_cat.categories[i]; the per-respondent year codes have one entry per
\* respondent, in the order of the respondent coordinate.
C7_ScaleAlignedWithRespondents ==
    m4 # None =>
      /\ m4.e_sigma = "exp"
      /\ m4.coords.respondent = id_cat.categories
      /\ Len(m4.scodes) = Len(m4.coords.respondent)
      /\ m4.scodes = id_year_cat.codes
      /\ \A i \in 0..(Len(m4.coords.respondent) - 1) : \A th \in PolarProbes :
           LogEStdM4(m4, th, i) =
             th.polarization_year_zero
             + (th.polarization_year_effect
                * YearCodeOf(FirstYear(id_cat.categories[i + 1])))

\* m4 over two respondents of different years, sampled in decreasing id.
C7_Witness ==
    /\ m4 # None
    /\ Range(m4.scodes) = {0, 1}
    /\ Len(subset) = 2 /\ subset[1] > subset[2]
    /\ questions.year[subset[1]] < questions.year[subset[2]]

\* Parameter values that tell every respondent, question and the trend apart.
ProbeTheta(c0) ==
    [d |-> [j \in 1..Len(c0.question) |-> 100 * j],
     e |-> [i \in 1..Len(c0.respondent) |-> 10 * i],
     conservatism_year_effect |-> 1000]

\* C8: in m3 and m4 the logit of an observation is e[respondent code] +
\* conservatism_year_effect * (dense code of the observation's own year) -
\* d[question code], the year codes being 0..K-1 in increasing calendar
\* order with 0 for the earliest observed year; in m1 and m2 it is
\* e[r] - d[q] and no year enters.
C8_LogitUsesOwnYearCode ==
    /\ \A m \in TrendFitted :
         LET th == ProbeTheta(m.coords)
             K == Len(m.coords.year)
         IN /\ \A i \in Rows :
                 /\ LogitM34(m, th, i) =
                      (th.e[IdCodeOf(long_q[i].id) + 1]
                       + (th.conservatism_year_effect * YearCodeOf(long_q[i].year)))
                      - th.d[QCodeOf(long_q[i].question) + 1]
                 /\ m.ycodes[i] \in 0..(K - 1)
                 /\ (\A j \in Rows : long_q[i].year <= long_q[j].year)
                      => m.ycodes[i] = 0
            /\ Range(m.coords.year) = ObsYears
            /\ \A k \in 1..(K - 1) : m.coords.year[k] < m.coords.year[k + 1]
    /\ \A m \in Present({m1, m2}) :
         LET th == ProbeTheta(m.coords)
         IN /\ "ycodes" \notin DOMAIN m
            /\ \A i \in Rows :
                 LogitM12(m, th, i) =
                   th.e[IdCodeOf(long_q[i].id) + 1]
                   - th.d[QCodeOf(long_q[i].question) + 1]

\* m4 is built over observations of two years, one of them with code 1.
C8_Witness ==
    /\ m4 # None /\ m1 # None
    /\ Cardinality(ObsYears) = 2
    /\ \E i, j \in Rows : m4.ycodes[i] = 1 /\ m4.ycodes[j] = 0 /\ m4.rcodes[i] = 0

ComparedInOrder == <<idata1, idata2, idata3, idata4>>
\* The states a call of compare_models returns into.
JustCompared == pc \in {"pp2", "years2", "pp4"}
MeanD(idata, qn) == MeanTimesN(idata, "d", IndexOf(idata.coords.question, qn))

\* C9: on return from compare_models, the question order is taken from the
\* first posterior only -- the questions in descending posterior-mean
\* difficulty of idata[0] -- and the plot shows every model's summaries in
\* that one order; the other posteriors have no influence on it: with any fitted posterior as
\* the second model the order, and the first model's rows, stay the same.
C9_OrderFromReferenceOnly ==
    /\ JustCompared =>
         LET sq == forest.sorted_q
         IN /\ sq = sorted_q
            /\ Len(sq) = Len(idata1.coords.question)
            /\ Range(sq) = Range(idata1.coords.question)
            /\ \A k \in 1..(Len(sq) - 1) : MeanD(idata1, sq[k]) >= MeanD(idata1, sq[k + 1])
            /\ \A i \in 1..Len(forest.rows) :
                 /\ Len(forest.rows[i].d) = Len(sq)
                 /\ \A k \in 1..Len(sq) :
                      /\ forest.rows[i].d[k].question = sq[k]
                      /\ forest.rows[i].d[k].mean_times_n
                           = MeanD(ComparedInOrder[i], sq[k])
    /\ JustCompared => \A a, b \in Posteriors :
         \A one \in {compare_models(<<a>>)}, two \in {compare_models(<<a, b>>)} :
            /\ two.sorted_q = one.sorted_q
            /\ two.rows[1] = one.rows[1]
            /\ \A k \in 1..Len(one.sorted_q) :
                 two.rows[2].d[k].question = one.sorted_q[k]

\* Four models compared, in an order that is neither the coordinate's nor
\* the one the last posterior would give.
C9_Witness ==
    /\ pc = "pp4"
    /\ forest # None
    /\ Len(forest.rows) = 4
    /\ forest.sorted_q # coords.question
    /\ SortedQ(idata4) # SortedQ(idata1)

\* C10: a posterior or predictive sample set, and a posterior's file, once
\* produced, keeps its value in every later step, and no set is written
\* more than once; a file holds the posterior it was written from.
C10_ProducedOnceNeverModified ==
    [][/\ \A k \in 1..Len(SetsInOrder) :
            SetsInOrder[k] # None => SetsInOrder'[k] = SetsInOrder[k]
       /\ \A f \in FileNames : files[f] # None => files'[f] = files[f]
       /\ \A n \in SetNames : writes'[n] <= 1
       /\ files'["idata1.nc"] = idata1' /\ files'["idata2.nc"] = idata2'
       /\ files'["idata3.nc"] = idata3' /\ files'["idata4.nc"] = idata4'
       /\ loaded' # None => loaded'.idata1 = idata1']_vars

\* The end of a complete run, every set written once and the file read back.
C10_Witness ==
    /\ pc = "done"
    /\ loaded # None
    /\ \A n \in SetNames : writes[n] = 1
    /\ \A k \in 1..Len(SetsInOrder) : SetsInOrder[k] # None
\* ----------------------------------------------------------------------
\* The observations of one (respondent, question) pair.
ObservedPair(id, qn) == {i \in Observed(id) : long_q[i].question = qn}
Answered(id) == {qn \in Range(order) : ~IsNaN(questions.cell[id][qn])}

\* C11: after encoding, every respondent of the respondent coordinate has
\* at least one and at most |questions| observations, at most one per
\* (respondent, question) pair, and a sampled respondent without any
\* observed answer is not in the coordinate.
C11_ObservationsPerRespondent ==
    id_cat # None =>
      /\ \A id \in Range(id_cat.categories) :
           /\ Cardinality(Observed(id)) >= 1
           /\ Cardinality(Observed(id)) <= Len(order)
           /\ Cardinality(Observed(id)) <= Len(q_cat.categories)
           /\ \A qn \in Range(order) : Cardinality(ObservedPair(id, qn)) <= 1
      /\ \A id \in Range(subset) :
           Answered(id) = {} => id \notin Range(id_cat.categories)
      /\ Range(id_cat.categories) \subseteq Range(subset)

\* Encoded: one sampled respondent answered every question, the other none.
C11_Witness ==
    /\ id_cat # None
    /\ \E a, b \in Range(subset) :
         /\ Cardinality(Observed(a)) = Len(order)
         /\ a \in Range(id_cat.categories)
         /\ Answered(b) = {}
         /\ b \notin Range(id_cat.categories)
\* ----------------------------------------------------------------------
\* The encoders over a column of the observation table, with the column
\* they encode and the sort key of its values.
Encoders ==
    {[cat |-> q_cat, col |-> "question",
      key |-> [x \in Range(order) |-> QRank(x)]],
     [cat |-> id_cat, col |-> "id", key |-> [x \in IDS |-> x]],
     [cat |-> q_year_cat, col |-> "year", key |-> [x \in Years |-> x]]}

\* C12: for the question, respondent and year encoders the distinct values
\* present map one-to-one onto the codes 0..K-1, assigned in sorted order;
\* decoding the code of any observation row gives back the row's value; no
\* row carries the code -1.
C12_EncodersRoundTrip ==
    \A en \in Encoders : en.cat # None =>
      LET cats == en.cat.categories
          codes == en.cat.codes
          K == Len(cats)
          present == {long_q[i][en.col] : i \in Rows}
      IN /\ Len(codes) = Len(long_q)
         /\ Range(cats) = present
         /\ K = Cardinality(present)
         /\ \A k \in 1..(K - 1) : en.key[cats[k]] < en.key[cats[k + 1]]
         /\ \A i \in Rows :
              /\ codes[i] \in 0..(K - 1)
              /\ codes[i] # -1
              /\ cats[codes[i] + 1] = long_q[i][en.col]
              /\ codes[i] = Cardinality({v \in present :
                                           en.key[v] < en.key[long_q[i][en.col]]})
         /\ \A i, j \in Rows :
              (codes[i] = codes[j]) <=> (long_q[i][en.col] = long_q[j][en.col])
         /\ Range(codes) = 0..(K - 1)

\* All three encoders built over three questions, two respondents and two
\* years, none of them met in sorted order in the table.
C12_Witness ==
    /\ q_year_cat # None /\ q_cat # None /\ id_cat # None
    /\ Len(q_cat.categories) = 3
    /\ Len(id_cat.categories) = 2
    /\ Len(q_year_cat.categories) = 2
    /\ q_cat.codes[1] # 0
    /\ q_year_cat.codes[1] # 0
\* ----------------------------------------------------------------------
\* The changes of one difficulty tried, and the parameters after one.
Deltas == {-2, 1, 3}
BumpD(th, j, delta) == [th EXCEPT !.d[j] = @ + delta]
\* The logit of observation i in a fitted model.
LogitOf(m, th, i) ==
    IF m.name \in {"m1", "m2"} THEN LogitM12(m, th, i) ELSE LogitM34(m, th, i)

\* C13: in all four models, raising one question's difficulty d[q] by
\* delta with every other parameter fixed lowers the logit of every
\* observation of question q by exactly delta, whatever its respondent and
\* year, and leaves the logit of every other observation unchanged.
C13_AntisymmetricInDifficulty ==
    \A m \in Fitted :
      \A th \in {ProbeTheta(m.coords)} :
        \A base \in {[i \in Rows |-> LogitOf(m, th, i)]} :
          \A j \in 1..Len(m.coords.question), delta \in Deltas :
            \A bumped \in {BumpD(th, j, delta)} :
              \A i \in Rows :
                LogitOf(m, bumped, i) =
                  IF long_q[i].question = m.coords.question[j]
                  THEN base[i] - delta
                  ELSE base[i]

\* All four models are built, and one question was answered by two
\* respondents of different years while another question was answered too.
C13_Witness ==
    /\ m1 # None /\ m2 # None /\ m3 # None /\ m4 # None
    /\ \E i, j, k \in Rows :
         /\ long_q[i].question = long_q[j].question
         /\ long_q[i].id # long_q[j].id
         /\ long_q[i].year # long_q[j].year
         /\ long_q[k].question # long_q[i].question
\* ----------------------------------------------------------------------
\* C14: for every respondent of the respondent coordinate, one who answered
\* every question included, the year lookup years[id_cat.categories] gives
\* exactly one entry, the respondent's own survey year, in the order of the
\* respondent codes: the lookup never fails and its length is the number
\* of respondents.
C14_YearLookupForEveryRespondent ==
    /\ err # "KeyError"
    /\ sorted_years # None =>
         /\ sorted_years.index = id_cat.categories
         /\ Len(sorted_years.values) = Len(id_cat.categories)
         /\ \A r \in 1..Len(id_cat.categories) :
              sorted_years.values[r] = questions.year[id_cat.categories[r]]
    /\ sorted_years_cat # None =>
         Len(sorted_years_cat.codes) = Len(coords.respondent)

\* C15: in the m3 and m4 Resample models the year code applied to respondent
\* r (sorted_years_cat.codes[r]) is the year code the fitted model applies
\* to each observation of r (q_year_cat.codes), so for every observed
\* (respondent, question) pair the predictive logit equals the fitted
\* model's logit under the same parameter values.
C15_PredictiveYearCodeIsFittedYearCode ==
    \A s \in {[pp |-> pp3, m |-> m3, idata |-> idata3],
              [pp |-> pp4, m |-> m4, idata |-> idata4]} :
      s.pp # None =>
        \A i \in Rows :
          /\ sorted_years_cat.codes[s.m.rcodes[i] + 1] = s.m.ycodes[i]
          /\ sorted_years_cat.codes[s.m.rcodes[i] + 1] = q_year_cat.codes[i]
          /\ \A c \in Chains, dr \in DrawsOf :
               s.pp.predictions[c][dr].logit_p[s.m.rcodes[i] + 1][s.m.qcodes[i] + 1]
                 = LogitM34(s.m, s.idata.posterior[c][dr], i)

\* Both Resample sets with a trend exist over two respondents of different
\* years, the first sampled being the later respondent code, and some
\* posterior draw has a trend.
C15_Witness ==
    /\ pp3 # None /\ pp4 # None
    /\ Len(coords.respondent) = 2
    /\ sorted_years_cat.codes = <<1, 0>>
    /\ Len(subset) = 2 /\ subset[1] > subset[2]
    /\ \E c \in Chains, dr \in DrawsOf :
         idata3.posterior[c][dr].conservatism_year_effect # 0
\* ----------------------------------------------------------------------
BothPresent == Range(REF_IDs) \subseteq questions.index
BothChosen == Range(REF_IDs) \subseteq Range(subset)
LoopLeft == pc # "sample"

\* C16 as stated (its safety part): the loop is left only with both
\* reference respondents in the subset, and never when one of them is not
\* a row of the table.
C16_ExitOnlyWithBoth ==
    /\ LoopLeft => BothChosen
    /\ ~BothPresent => ~LoopLeft

\* C16 (amended): on a table with at least SampleSize rows the loop
\* terminates under fair draws when both reference respondents are rows of
\* it, leaves with both of them in the subset, and never exits when one of
\* them is absent; on a smaller table the first sample raises ValueError
\* and no subset is chosen.
C16_LoopTermination ==
    /\ (BothPresent /\ CanSample(questions)) ~> LoopLeft
    /\ [](CanSample(questions) => (LoopLeft => BothChosen))
    /\ []((CanSample(questions) /\ ~BothPresent) => ~LoopLeft)
    /\ [](~CanSample(questions) =>
            \/ pc = "sample" /\ iters = 0
            \/ pc = "crashed" /\ err = "ValueError" /\ iters = 0 /\ subset = <<>>)

\* The loop was left after more than one iteration.
C16_Witness ==
    /\ pc = "melt"
    /\ iters >= 2
    /\ BothChosen
    /\ Cardinality(questions.index) > SampleSize
====
